---- MODULE Spec2Model ----
(***************************************************************************)
(* Model of the tca9555 crate (src/tca9555/src/lib.rs): the DeviceAddr     *)
(* address resolver and the Tca9555 register protocol driver, run against  *)
(* a stub I2C transport that keeps the expander's register file.           *)
(***************************************************************************)
EXTENDS Integers, Sequences, FiniteSets

VARIABLES
    address,   \* Tca9555.address : DeviceAddr, set by new()
    regs,      \* stub transport: the chip's writable registers, by command byte
    pins,      \* stub transport: the levels driven onto the pins from outside
    pc,        \* position inside a two-exchange operation
    port0,     \* read_all's local `port0` while the second read is pending
    call,      \* the operation last called: its name, argument and result
    trace,     \* the transport calls made by that operation, in order
    levels,    \* history: the 16 pin levels at each moment of a read_all
    written    \* history: the value of a write_all that succeeded last

vars == <<address, regs, pins, pc, port0, call, trace, levels, written>>

----------------------------------------------------------------------------
(* Bounds of the model. *)

\* SampleBytes holds NumSamples + 1 byte values.
NumSamples == 1

\* pin changes admitted between the two reads of one read_all
MaxMidChanges == 1

SampleBytes == {(k * 165) % 256 : k \in 0..NumSamples}

\* direction and polarity masks: no pin, every pin
SampleMasks == {0, 255}

\* outside levels of a port: every pin low, every pin high
SamplePins == {0, 255}

Values16 == {hi * 256 + lo : hi \in SampleBytes, lo \in SampleBytes}

\* the transport's associated error type E
Errors == {"Nack", "Timeout"}

Outcomes == {"Ok"} \cup Errors

----------------------------------------------------------------------------
(* u8 arithmetic *)

RECURSIVE BitOr(_, _, _)
BitOr(x, y, n) ==
    IF n = 0 THEN 0
    ELSE (IF x % 2 = 1 \/ y % 2 = 1 THEN 1 ELSE 0)
         + 2 * BitOr(x \div 2, y \div 2, n - 1)

RECURSIVE BitAnd(_, _, _)
BitAnd(x, y, n) ==
    IF n = 0 THEN 0
    ELSE (IF x % 2 = 1 /\ y % 2 = 1 THEN 1 ELSE 0)
         + 2 * BitAnd(x \div 2, y \div 2, n - 1)

RECURSIVE BitXor(_, _, _)
BitXor(x, y, n) ==
    IF n = 0 THEN 0
    ELSE (IF (x % 2) # (y % 2) THEN 1 ELSE 0)
         + 2 * BitXor(x \div 2, y \div 2, n - 1)

\* a | b on u8
Or8(x, y) == BitOr(x, y, 8)

\* (b as u8) << k, on u8
BoolShl(b, k) == ((IF b THEN 1 ELSE 0) * 2^k) % 256

\* u16::from_be_bytes([b[1], b[2]])
from_be_bytes(b) == b[1] * 256 + b[2]

\* mutant of to_be_bytes: the bytes in little-endian order
to_le_bytes(v) == <<v % 256, (v \div 256) % 256>>

\* u16::to_be_bytes(v)
to_be_bytes(v) == <<(v \div 256) % 256, v % 256>>

----------------------------------------------------------------------------
(* mod command *)

READ_PORT_0 == 0
READ_PORT_1 == 1
WRITE_PORT_0 == 2
WRITE_PORT_1 == 3
POLARITY_INVERT_PORT_0 == 4
POLARITY_INVERT_PORT_1 == 5
CONFIGURATION_PORT_0 == 6
CONFIGURATION_PORT_1 == 7

----------------------------------------------------------------------------
(* enum DeviceAddr *)

Default == <<"Default">>

Alternative(a0, a1, a2) == <<"Alternative", a0, a1, a2>>

DeviceAddr ==
    {Default} \cup {Alternative(a0, a1, a2) : a0 \in BOOLEAN, a1 \in BOOLEAN, a2 \in BOOLEAN}

\* DeviceAddr::DEFAULT
DEFAULT == 32

\* mutant of addr: the shifts of A1 and A2 exchanged
addr_shifts_swapped(self) ==
    IF self[1] = "Default"
    THEN DEFAULT
    ELSE Or8(Or8(Or8(DEFAULT, BoolShl(self[2], 0)), BoolShl(self[3], 2)),
             BoolShl(self[4], 1))

\* mutant of addr: the strap bits without the base address
addr_alternative_unbased(self) ==
    IF self[1] = "Default"
    THEN DEFAULT
    ELSE Or8(Or8(BoolShl(self[2], 0), BoolShl(self[3], 1)), BoolShl(self[4], 2))

\* DeviceAddr::addr
addr(self) ==
    IF self[1] = "Default"
    THEN DEFAULT
    ELSE Or8(Or8(Or8(DEFAULT, BoolShl(self[2], 0)), BoolShl(self[3], 1)),
             BoolShl(self[4], 2))

\* addr() of each selection, tabulated: `self.address.addr()` is a lookup
Resolved == [self \in DeviceAddr |-> addr(self)]

----------------------------------------------------------------------------
(* The stub transport: an expander that keeps what is written to it.       *)
(* A pin configured as output (direction bit 0) shows the output register  *)
(* bit, a pin configured as input shows the outside level; the polarity    *)
(* register inverts what a read returns.                                   *)

\* the register files the model starts the chip in
RegFiles ==
    {rg \in [WRITE_PORT_0..CONFIGURATION_PORT_1 -> SampleBytes \cup SampleMasks] :
        /\ \A c \in {WRITE_PORT_0, WRITE_PORT_1} : rg[c] \in SampleBytes
        /\ \A c \in POLARITY_INVERT_PORT_0..CONFIGURATION_PORT_1 : rg[c] \in SampleMasks}

Not8(x) == 255 - x

PinLevel(rg, pn, p) ==
    BitXor(Or8(BitAnd(rg[WRITE_PORT_0 + p], Not8(rg[CONFIGURATION_PORT_0 + p]), 8),
               BitAnd(pn[p], rg[CONFIGURATION_PORT_0 + p], 8)),
           rg[POLARITY_INVERT_PORT_0 + p], 8)

\* both ports at one moment, port 1 in the high byte
Combined(rg, pn) == PinLevel(rg, pn, 1) * 256 + PinLevel(rg, pn, 0)

\* WriteRead::write_read(address, bytes, buffer): the exchange and the
\* buffer after it; a failed exchange leaves the buffer as it was passed
write_read(a, bytes, buffer, r) ==
    [kind |-> "write_read", addr |-> a, bytes |-> bytes,
     rd |-> IF r = "Ok" THEN <<PinLevel(regs, pins, bytes[1])>> ELSE buffer,
     res |-> r]

\* Write::write(address, bytes)
write(a, bytes, r) ==
    [kind |-> "write", addr |-> a, bytes |-> bytes, rd |-> <<>>, res |-> r]

\* the register file after exchange tx: a failed exchange never reached it
Deliver(rg, tx) ==
    IF tx.kind = "write" /\ tx.res = "Ok"
    THEN [rg EXCEPT ![tx.bytes[1]] = tx.bytes[2]]
    ELSE rg

----------------------------------------------------------------------------
(* struct Tca9555: what each method hands to the transport *)

\* Result::and(Ok(value[0])) on the outcome of a write_read
and_ok_value(tx) == IF tx.res = "Ok" THEN <<tx.rd[1]>> ELSE <<>>

read_port_0_tx(r) == write_read(Resolved[address], <<READ_PORT_0>>, <<0>>, r)

\* mutant of read_port_1_tx: the command byte of port 0
read_port_1_tx_port_0(r) == write_read(Resolved[address], <<READ_PORT_0>>, <<0>>, r)

read_port_1_tx(r) == write_read(Resolved[address], <<READ_PORT_1>>, <<0>>, r)

write_port_0_tx(value, r) == write(Resolved[address], <<WRITE_PORT_0, value>>, r)

set_port_0_direction_tx(dir_mask, r) ==
    write(Resolved[address], <<CONFIGURATION_PORT_0, dir_mask>>, r)

set_port_0_polarity_invert_tx(polarity_mask, r) ==
    write(Resolved[address], <<POLARITY_INVERT_PORT_0, polarity_mask>>, r)

\* mutant of write_port_1_tx: the default address, not the stored selection
write_port_1_tx_default_addr(value, r) == write(DEFAULT, <<WRITE_PORT_1, value>>, r)

write_port_1_tx(value, r) == write(Resolved[address], <<WRITE_PORT_1, value>>, r)

\* mutant of set_port_1_direction_tx: the configuration register of port 0
set_port_1_direction_tx_port_0(dir_mask, r) ==
    write(Resolved[address], <<CONFIGURATION_PORT_0, dir_mask>>, r)

set_port_1_direction_tx(dir_mask, r) ==
    write(Resolved[address], <<CONFIGURATION_PORT_1, dir_mask>>, r)

set_port_1_polarity_invert_tx(polarity_mask, r) ==
    write(Resolved[address], <<POLARITY_INVERT_PORT_1, polarity_mask>>, r)

\* mutant of read_all_value: port 0 in the high byte
read_all_value_swapped(p1, p0) == from_be_bytes(<<p0, p1>>)

\* read_all's Ok(u16::from_be_bytes([port1, port0]))
read_all_value(p1, p0) == from_be_bytes(<<p1, p0>>)

----------------------------------------------------------------------------
(* Tca9555::new(i2c, address): the chip is in whatever state it was left *)

New(selectors, files) ==
    /\ address \in selectors
    /\ regs \in files
    /\ pins \in [{0, 1} -> SamplePins]
    /\ pc = "idle"
    /\ port0 = <<>>
    /\ call = [op |-> "new", arg |-> <<>>, res |-> "Ok", value |-> <<>>]
    /\ trace = <<>>
    /\ levels = <<>>
    /\ written = <<>>

\* the selections the crate itself makes: DeviceAddr::default() in its
\* example, and a strapped address of test::address_set
Init == New({Default, Alternative(FALSE, TRUE, TRUE)}, RegFiles)

----------------------------------------------------------------------------
(* impl Tca9555 where I2C: WriteRead *)

\* a method that makes one write_read exchange and returns
ReadOp(name, tx) ==
    /\ pc = "idle"
    /\ trace' = <<tx>>
    /\ call' = [op |-> name, arg |-> <<>>, res |-> tx.res, value |-> and_ok_value(tx)]
    /\ levels' = <<>>
    /\ UNCHANGED <<address, regs, pins, pc, port0, written>>

read_port_0 == \E r \in Outcomes : ReadOp("read_port_0", read_port_0_tx(r))

read_port_1 == \E r \in Outcomes : ReadOp("read_port_1", read_port_1_tx(r))

\* mutant of read_all_port_0: no `?`, a failed read of port 0 goes on
read_all_port_0_no_return(r) ==
    LET tx == read_port_0_tx(r) IN
    /\ pc = "idle"
    /\ trace' = <<tx>>
    /\ levels' = <<Combined(regs, pins)>>
    /\ pc' = "read_all"
    /\ port0' = <<tx.rd[1]>>
    /\ call' = [op |-> "read_all", arg |-> <<>>, res |-> "Pending", value |-> <<>>]
    /\ UNCHANGED <<address, regs, pins, written>>

\* read_all up to `let port0 = self.read_port_0()?`
read_all_port_0(r) ==
    LET tx == read_port_0_tx(r) IN
    /\ pc = "idle"
    /\ trace' = <<tx>>
    /\ levels' = <<Combined(regs, pins)>>
    /\ IF tx.res = "Ok"
       THEN /\ pc' = "read_all"
            /\ port0' = and_ok_value(tx)
            /\ call' = [op |-> "read_all", arg |-> <<>>, res |-> "Pending", value |-> <<>>]
       ELSE /\ pc' = "idle"
            /\ port0' = <<>>
            /\ call' = [op |-> "read_all", arg |-> <<>>, res |-> tx.res, value |-> <<>>]
    /\ UNCHANGED <<address, regs, pins, written>>

\* read_all from `let port1 = self.read_port_1()?` to its return
read_all_port_1(r) ==
    LET tx == read_port_1_tx(r) IN
    /\ pc = "read_all"
    /\ trace' = Append(trace, tx)
    /\ pc' = "idle"
    /\ port0' = <<>>
    /\ call' = [call EXCEPT
                  !.res = tx.res,
                  !.value = IF tx.res = "Ok"
                            THEN <<read_all_value(and_ok_value(tx)[1], port0[1])>>
                            ELSE <<>>]
    /\ UNCHANGED <<address, regs, pins, levels, written>>

read_all_first == \E r \in Outcomes : read_all_port_0(r)

read_all_second == \E r \in Outcomes : read_all_port_1(r)

----------------------------------------------------------------------------
(* impl Tca9555 where I2C: Write *)

\* a method that makes one write exchange and returns
WriteOp(name, v, tx) ==
    /\ pc = "idle"
    /\ trace' = <<tx>>
    /\ call' = [op |-> name, arg |-> <<v>>, res |-> tx.res, value |-> <<>>]
    /\ regs' = Deliver(regs, tx)
    /\ levels' = <<>>
    /\ written' = <<>>
    /\ UNCHANGED <<address, pins, pc, port0>>

write_port_0 ==
    \E value \in SampleBytes, r \in Outcomes :
        WriteOp("write_port_0", value, write_port_0_tx(value, r))

set_port_0_direction ==
    \E dir_mask \in SampleMasks, r \in Outcomes :
        WriteOp("set_port_0_direction", dir_mask, set_port_0_direction_tx(dir_mask, r))

set_port_0_polarity_invert ==
    \E polarity_mask \in SampleMasks, r \in Outcomes :
        WriteOp("set_port_0_polarity_invert", polarity_mask,
                set_port_0_polarity_invert_tx(polarity_mask, r))

write_port_1 ==
    \E value \in SampleBytes, r \in Outcomes :
        WriteOp("write_port_1", value, write_port_1_tx(value, r))

set_port_1_direction ==
    \E dir_mask \in SampleMasks, r \in Outcomes :
        WriteOp("set_port_1_direction", dir_mask, set_port_1_direction_tx(dir_mask, r))

set_port_1_polarity_invert ==
    \E polarity_mask \in SampleMasks, r \in Outcomes :
        WriteOp("set_port_1_polarity_invert", polarity_mask,
                set_port_1_polarity_invert_tx(polarity_mask, r))

\* write_all up to `self.write_port_0(port0)?`
write_all_port_0(value, r) ==
    LET tx == write_port_0_tx(to_be_bytes(value)[2], r) IN
    /\ pc = "idle"
    /\ trace' = <<tx>>
    /\ regs' = Deliver(regs, tx)
    /\ levels' = <<>>
    /\ written' = <<>>
    /\ pc' = IF tx.res = "Ok" THEN "write_all" ELSE "idle"
    /\ call' = [op |-> "write_all", arg |-> <<value>>,
                res |-> IF tx.res = "Ok" THEN "Pending" ELSE tx.res, value |-> <<>>]
    /\ UNCHANGED <<address, pins, port0>>

\* mutant of write_all_port_1: port 1 is sent the byte of port 0
write_all_port_1_low_byte(r) ==
    LET tx == write_port_1_tx(to_be_bytes(call.arg[1])[2], r) IN
    /\ pc = "write_all"
    /\ trace' = Append(trace, tx)
    /\ regs' = Deliver(regs, tx)
    /\ pc' = "idle"
    /\ call' = [call EXCEPT !.res = tx.res]
    /\ written' = IF tx.res = "Ok" THEN call.arg ELSE <<>>
    /\ UNCHANGED <<address, pins, port0, levels>>

\* mutant of write_all_port_1: a failed write of port 1 is followed by a
\* write that clears port 0 again
write_all_port_1_rollback(r) ==
    LET tx == write_port_1_tx(to_be_bytes(call.arg[1])[1], r)
        undo == write_port_0_tx(0, "Ok")
    IN
    /\ pc = "write_all"
    /\ trace' = IF tx.res = "Ok" THEN Append(trace, tx) ELSE trace \o <<tx, undo>>
    /\ regs' = IF tx.res = "Ok" THEN Deliver(regs, tx) ELSE Deliver(regs, undo)
    /\ pc' = "idle"
    /\ call' = [call EXCEPT !.res = tx.res]
    /\ written' = IF tx.res = "Ok" THEN call.arg ELSE <<>>
    /\ UNCHANGED <<address, pins, port0, levels>>

\* write_all's tail call `self.write_port_1(port1)`
write_all_port_1(r) ==
    LET tx == write_port_1_tx(to_be_bytes(call.arg[1])[1], r) IN
    /\ pc = "write_all"
    /\ trace' = Append(trace, tx)
    /\ regs' = Deliver(regs, tx)
    /\ pc' = "idle"
    /\ call' = [call EXCEPT !.res = tx.res]
    /\ written' = IF tx.res = "Ok" THEN call.arg ELSE <<>>
    /\ UNCHANGED <<address, pins, port0, levels>>

write_all_first == \E value \in Values16, r \in Outcomes : write_all_port_0(value, r)

write_all_second == \E r \in Outcomes : write_all_port_1(r)

----------------------------------------------------------------------------
(* The outside world drives the pins of the ports to new levels, at any    *)
(* moment, also between the two exchanges of one operation.                *)

PinChange ==
    \E pn \in [{0, 1} -> SamplePins] :
        /\ pins # pn
        /\ pins' = pn
        /\ IF pc = "read_all"
           THEN /\ Len(levels) <= MaxMidChanges
                /\ levels' = Append(levels, Combined(regs, pins'))
           ELSE UNCHANGED levels
        /\ UNCHANGED <<address, regs, pc, port0, call, trace, written>>

Next ==
    \/ read_port_0
    \/ read_port_1
    \/ read_all_first
    \/ read_all_second
    \/ write_port_0
    \/ set_port_0_direction
    \/ set_port_0_polarity_invert
    \/ write_port_1
    \/ set_port_1_direction
    \/ set_port_1_polarity_invert
    \/ write_all_first
    \/ write_all_second
    \/ PinChange

Spec == Init /\ [][Next]_vars

----------------------------------------------------------------------------
(* Every address selection, against a chip that is and stays configured    *)
(* with all pins as outputs and no polarity inversion.                     *)

EchoConfigured ==
    \A c \in POLARITY_INVERT_PORT_0..CONFIGURATION_PORT_1 : regs[c] = 0

InitAddr == New(DeviceAddr, {rg \in RegFiles : \A c \in DOMAIN rg : rg[c] = 0})

NextAddr ==
    \/ read_port_0 /\ EchoConfigured'
    \/ read_port_1 /\ EchoConfigured'
    \/ read_all_first /\ EchoConfigured'
    \/ read_all_second /\ EchoConfigured'
    \/ write_port_0 /\ EchoConfigured'
    \/ set_port_0_direction /\ EchoConfigured'
    \/ set_port_0_polarity_invert /\ EchoConfigured'
    \/ write_port_1 /\ EchoConfigured'
    \/ set_port_1_direction /\ EchoConfigured'
    \/ set_port_1_polarity_invert /\ EchoConfigured'
    \/ write_all_first /\ EchoConfigured'
    \/ write_all_second /\ EchoConfigured'
    \/ PinChange /\ EchoConfigured'

SpecAddr == InitAddr /\ [][NextAddr]_vars


----------------------------------------------------------------------------
(* Properties *)

\* operation op has returned
Returned(op) == pc = "idle" /\ call.op = op

\* C1: for every strap selection (A0, A1, A2) the resolved address is
\* 0x20 | A0 | (A1<<1) | (A2<<2), lies in 0x20..0x27, and is the address the
\* driver puts on the bus; (F,F,F) gives 0x20, (T,F,F) 0x21, (F,T,T) 0x26.
C1_StrapAddress ==
    /\ address[1] = "Alternative" =>
         LET n == 32 + (IF address[2] THEN 1 ELSE 0) + (IF address[3] THEN 2 ELSE 0)
                     + (IF address[4] THEN 4 ELSE 0)
         IN /\ addr(address) = n
            /\ n \in 32..39
            /\ \A i \in DOMAIN trace : trace[i].addr = n
    /\ address = <<"Alternative", FALSE, FALSE, FALSE>> => addr(address) = 32
    /\ address = <<"Alternative", TRUE, FALSE, FALSE>> => addr(address) = 33
    /\ address = <<"Alternative", FALSE, TRUE, TRUE>> => addr(address) = 38

C1_Witness ==
    /\ address = <<"Alternative", FALSE, TRUE, FALSE>>
    /\ Returned("write_all")
    /\ Len(trace) = 2
    /\ trace[2].addr = 34

\* C2: the default selection and the selection (false, false, false) both
\* resolve to 0x20, and a driver built with either sends every transaction
\* of every operation to 0x20.
C2_DefaultIsAllFalse ==
    address \in {<<"Default">>, <<"Alternative", FALSE, FALSE, FALSE>>} =>
        /\ addr(address) = 32
        /\ \A i \in DOMAIN trace : trace[i].addr = 32

C2_Witness ==
    /\ address = <<"Alternative", FALSE, FALSE, FALSE>>
    /\ Returned("read_all")
    /\ Len(trace) = 2
    /\ trace[1].addr = 32 /\ trace[2].addr = 32

\* C3: a read_all whose exchanges both succeed has made exactly two
\* write-then-read transactions, command Read-Port-0 then Read-Port-1, and
\* returns (port1 << 8) | port0 of the bytes they returned.
C3_ReadAll ==
    Returned("read_all") /\ call.res = "Ok" =>
        /\ Len(trace) = 2
        /\ \A i \in 1..2 : /\ trace[i].kind = "write_read"
                           /\ trace[i].res = "Ok"
                           /\ Len(trace[i].rd) = 1
        /\ trace[1].bytes = <<0>>
        /\ trace[2].bytes = <<1>>
        /\ call.value = <<trace[2].rd[1] * 256 + trace[1].rd[1]>>

C3_Witness ==
    /\ Returned("read_all")
    /\ call.res = "Ok"
    /\ trace[1].rd # trace[2].rd
    /\ call.value = <<165 * 256>>

\* C4: a write_all(v) whose exchanges both succeed has made exactly two
\* write transactions: port 0 with v mod 256, then port 1 with v div 256.
C4_WriteAll ==
    Returned("write_all") /\ call.res = "Ok" =>
        /\ Len(trace) = 2
        /\ \A i \in 1..2 : trace[i].kind = "write" /\ trace[i].res = "Ok"
        /\ trace[1].bytes = <<2, call.arg[1] % 256>>
        /\ trace[2].bytes = <<3, call.arg[1] \div 256>>

C4_Witness ==
    /\ Returned("write_all")
    /\ call.res = "Ok"
    /\ call.arg = <<165>>
    /\ trace[1].bytes = <<2, 165>>
    /\ trace[2].bytes = <<3, 0>>

\* C5: round trip: with all pins outputs and no polarity inversion, a
\* read_all that succeeds after a successful write_all(V), with no other
\* write in between, returns V.
C5_RoundTrip ==
    /\ Returned("read_all")
    /\ call.res = "Ok"
    /\ written # <<>>
    /\ \A c \in 4..7 : regs[c] = 0
    => call.value = written

C5_Witness ==
    /\ Returned("read_all")
    /\ call.res = "Ok"
    /\ written = <<165 * 256>>
    /\ \A c \in 4..7 : regs[c] = 0
    /\ pins[0] = 255

\* C6: an operation fails exactly when one of its exchanges failed; it then
\* returns that exchange's error and no value, and the failed exchange is
\* the last one it made: no retry, no further transaction.
C6_FailurePropagation ==
    /\ pc # "idle" => Len(trace) = 1 /\ trace[1].res = "Ok"
    /\ pc = "idle" /\ call.op # "new" =>
         /\ Len(trace) \in 1..(IF call.op \in {"read_all", "write_all"} THEN 2 ELSE 1)
         /\ call.res # "Ok" <=> \E i \in DOMAIN trace : trace[i].res # "Ok"
         /\ \A i \in DOMAIN trace :
              trace[i].res # "Ok" =>
                  /\ i = Len(trace)
                  /\ call.res = trace[i].res
                  /\ call.res \in {"Nack", "Timeout"}
                  /\ call.value = <<>>
         /\ call.res = "Ok" /\ call.op \in {"read_all", "write_all"} => Len(trace) = 2

C6_Witness ==
    /\ Returned("read_all")
    /\ call.res = "Timeout"
    /\ Len(trace) = 1
    /\ trace[1].bytes = <<0>>

\* C7: when write_all's write of port 0 succeeds and its write of port 1
\* fails, write_all reports that failure, the output register of port 0
\* holds the low byte of v, the output register of port 1 is as it was
\* before the call, and no further transaction follows the failed one.
C7_PartialWrite ==
    [][/\ pc = "idle" /\ pc' = "write_all" =>
            regs' = [regs EXCEPT ![2] = call'.arg[1] % 256]
       /\ pc = "write_all" /\ pc' = "write_all" => regs' = regs
       /\ pc = "write_all" /\ pc' = "idle" /\ call'.res # "Ok" =>
            /\ regs' = regs
            /\ regs'[2] = call'.arg[1] % 256
            /\ call'.res = trace'[2].res
            /\ call'.res \in {"Nack", "Timeout"}
            /\ Len(trace') = 2
            /\ trace'[1].bytes[1] = 2 /\ trace'[1].res = "Ok"
            /\ trace'[2].bytes[1] = 3]_vars

C7_Witness ==
    /\ Returned("write_all")
    /\ call.res = "Nack"
    /\ Len(trace) = 2
    /\ call.arg = <<165>>
    /\ regs[2] = 165
    /\ regs[3] = 165

\* C8: each single-port operation makes exactly one transaction, whose
\* first byte is the command byte of the register map; a read sends that
\* byte alone and returns the one byte read back, a write sends the value
\* or mask unchanged as the second byte.
C8_CommandBytes ==
    LET cmd == [read_port_0 |-> 0, read_port_1 |-> 1,
                write_port_0 |-> 2, write_port_1 |-> 3,
                set_port_0_polarity_invert |-> 4, set_port_1_polarity_invert |-> 5,
                set_port_0_direction |-> 6, set_port_1_direction |-> 7]
    IN
    pc = "idle" /\ call.op \in DOMAIN cmd =>
        /\ Len(trace) = 1
        /\ IF call.op \in {"read_port_0", "read_port_1"}
           THEN /\ trace[1].kind = "write_read"
                /\ trace[1].bytes = <<cmd[call.op]>>
                /\ Len(trace[1].rd) = 1
                /\ call.res = "Ok" => call.value = trace[1].rd
           ELSE /\ trace[1].kind = "write"
                /\ trace[1].bytes = <<cmd[call.op], call.arg[1]>>

C8_Witness ==
    /\ Returned("set_port_1_direction")
    /\ call.res = "Ok"
    /\ trace = <<[kind |-> "write", addr |-> 32, bytes |-> <<7, 255>>,
                  rd |-> <<>>, res |-> "Ok"]>>

\* C9: a successful read_all returns the level of port 0 at its first
\* exchange in the low byte and the level of port 1 at its second exchange
\* in the high byte; when the pins change in between, that value may be one
\* the two ports never showed together (the witness).
C9_ReadAllNotAtomic ==
    Returned("read_all") /\ call.res = "Ok" =>
        /\ levels # <<>>
        /\ call.value = <<(levels[Len(levels)] \div 256) * 256 + (levels[1] % 256)>>

C9_Witness ==
    /\ Returned("read_all")
    /\ call.res = "Ok"
    /\ Len(levels) = 2
    /\ \A i \in DOMAIN levels : levels[i] # call.value[1]

\* C10: no operation changes the stored address selection, and every
\* transaction of every operation, successful or failed, is sent to the
\* address resolved from it.
C10_OneAddress ==
    [][/\ address' = address
       /\ \A i \in DOMAIN trace' : trace'[i].addr = addr(address)]_vars

C10_Witness ==
    /\ address = <<"Alternative", TRUE, FALSE, TRUE>>
    /\ Returned("write_all")
    /\ call.res = "Timeout"
    /\ Len(trace) = 2
    /\ trace[1].addr = 37 /\ trace[2].addr = 37

====
